---------------------------- MODULE Spec2Model ----------------------------
(***************************************************************************)
(* A model of tracer_bvh's sequence partitioner (src/partition.rs) and of  *)
(* its axis-aligned bounding box (src/bbox.rs).                            *)
(*                                                                         *)
(* The partitioner is a step machine: one action per cursor call and one   *)
(* for the match at the end of each round of the loop.  The bounding box   *)
(* operations are operators over a small model of f32 that keeps the       *)
(* infinities, NaN and overflow to infinity.                               *)
(***************************************************************************)
EXTENDS Integers, Sequences, FiniteSets

(***************************************************************************)
(* Bounds of the model.                                                    *)
(***************************************************************************)
\* longest sequence handed to partition
MaxLen == 5
\* the elements of a sequence are drawn from 1..MaxVal
MaxVal == 3

\* largest finite value of the model's f32 (f32::MAX in the program)
MaxFloat == 8
\* finite corner coordinates of the boxes the union laws are checked on
MaxCoord == 1
\* indices handed to a box's Index / IndexMut run over 0..MaxIndex
MaxIndex == 3
\* corners of the boxes a ray is tested against run over 1..MaxCorner
MaxCorner == 2

Vals == 1..MaxVal

VARIABLES
    \* ---- partition (src/partition.rs) ----
    input,      \* the sequence as it was handed to partition
    pred,       \* the predicate, a function Vals -> BOOLEAN
    data,       \* the sequence the cursor `it` runs over, mutated in place
    lo,         \* number of elements `it` has yielded from the front
    hi,         \* data[lo+1 .. hi] is what `it` has not yielded yet
    split_idx,  \* the local split_idx
    front,      \* the local front: 0 for None, else the position it refers to
    back,       \* the local back: 0 for None, else the position it refers to
    pc,         \* where the program is
    swaps,      \* number of mem::swap calls so far
    evals,      \* evals[i]: number of calls of pred on position i
    frontTaken, \* positions yielded by it.next()
    backTaken,  \* positions yielded by it.next_back()
    \* ---- bounding box (src/bbox.rs) ----
    box,        \* the BBox the program holds
    axisOut,    \* <<a>> once max_extent returned a for box, else <<>>
    areaOut,    \* <<s>> once surface_area returned s for box, else <<>>
    ray,        \* the ray handed to fast_intersect
    hitOut,     \* <<h>> once fast_intersect returned h, else <<>>
    idxOp,      \* the last indexing of box: "none", "read" or "write"
    idxI,       \* the index it used
    idxVal,     \* the corner a write stored through the reference
    idxOut,     \* <<v>> when a read returned the corner v, else <<>>
    panicked    \* the program has panicked

partVars == <<input, pred, data, lo, hi, split_idx, front, back, pc, swaps,
              evals, frontTaken, backTaken>>

boxVars == <<box, axisOut, areaOut, ray, hitOut, idxOp, idxI, idxVal, idxOut,
             panicked>>

vars == <<partVars, boxVars>>

(***************************************************************************)
(* f32.  A finite value is an integer of -MaxFloat..MaxFloat; a result     *)
(* beyond that range overflows to an infinity, as in IEEE-754.  Rounding   *)
(* below the overflow threshold is not modelled: every finite result here  *)
(* is exact.                                                               *)
(***************************************************************************)
PosInf == MaxFloat + 1
NegInf == -(MaxFloat + 1)
NaN == MaxFloat + 2

Finite == (-MaxFloat)..MaxFloat

IsInf(a) == a = PosInf \/ a = NegInf

\* a real result as an f32: overflow gives an infinity
FRound(n) == IF n > MaxFloat THEN PosInf ELSE IF n < -MaxFloat THEN NegInf ELSE n

FNeg(a) == IF a = NaN THEN NaN ELSE -a

FAdd(a, b) ==
    IF a = NaN \/ b = NaN THEN NaN
    ELSE IF IsInf(a) THEN (IF IsInf(b) /\ b # a THEN NaN ELSE a)
    ELSE IF IsInf(b) THEN b
    ELSE FRound(a + b)

FSub(a, b) == FAdd(a, FNeg(b))

FMul(a, b) ==
    IF a = NaN \/ b = NaN THEN NaN
    ELSE IF IsInf(a) \/ IsInf(b)
         THEN (IF a = 0 \/ b = 0 THEN NaN
               ELSE IF (a > 0) = (b > 0) THEN PosInf ELSE NegInf)
    ELSE FRound(a * b)

\* the comparisons of f32: false as soon as one side is NaN
FGt(a, b) == a # NaN /\ b # NaN /\ a > b
FLt(a, b) == a # NaN /\ b # NaN /\ a < b
FGe(a, b) == a # NaN /\ b # NaN /\ a >= b
FLe(a, b) == a # NaN /\ b # NaN /\ a <= b

\* f32::min and f32::max: the other operand when one is NaN
FMin(a, b) == IF a = NaN THEN b ELSE IF b = NaN THEN a ELSE IF a < b THEN a ELSE b
FMax(a, b) == IF a = NaN THEN b ELSE IF b = NaN THEN a ELSE IF a > b THEN a ELSE b

(***************************************************************************)
(* Vector (linalg::Vector): x, y, z                                        *)
(***************************************************************************)
Vector_new(a, b, c) == [x |-> a, y |-> b, z |-> c]

Vector_broadcast(a) == Vector_new(a, a, a)

\* Vector - Vector, componentwise
VSub(a, b) == Vector_new(FSub(a.x, b.x), FSub(a.y, b.y), FSub(a.z, b.z))

(***************************************************************************)
(* BBox                                                                    *)
(***************************************************************************)
\* BBox::new(): the degenerate box
BBox_new == [min |-> Vector_broadcast(PosInf), max |-> Vector_broadcast(NegInf)]

\* BBox::singular(p)
singular(p) == [min |-> p, max |-> p]

\* BBox::span(min, max)
span(min, max) == [min |-> min, max |-> max]

\* mutant: the max corner takes the smaller of the two z coordinates
box_union_minz(a, b) ==
    [min |-> Vector_new(FMin(a.min.x, b.min.x), FMin(a.min.y, b.min.y),
                        FMin(a.min.z, b.min.z)),
     max |-> Vector_new(FMax(a.max.x, b.max.x), FMax(a.max.y, b.max.y),
                        FMin(a.max.z, b.max.z))]

\* a.box_union(&b)
box_union(a, b) ==
    [min |-> Vector_new(FMin(a.min.x, b.min.x), FMin(a.min.y, b.min.y),
                        FMin(a.min.z, b.min.z)),
     max |-> Vector_new(FMax(a.max.x, b.max.x), FMax(a.max.y, b.max.y),
                        FMax(a.max.z, b.max.z))]

\* a.point_union(p)
point_union(a, p) ==
    [min |-> Vector_new(FMin(a.min.x, p.x), FMin(a.min.y, p.y),
                        FMin(a.min.z, p.z)),
     max |-> Vector_new(FMax(a.max.x, p.x), FMax(a.max.y, p.y),
                        FMax(a.max.z, p.z))]

\* mutant: an axis wins a tie against the axes after it
max_extent_ge(b) ==
    LET d == VSub(b.max, b.min)
    IN  IF FGe(d.x, d.y) /\ FGe(d.x, d.z) THEN "X"
        ELSE IF FGe(d.y, d.z) THEN "Y"
        ELSE "Z"

\* mutant: X is not compared with Z
max_extent_xy(b) ==
    LET d == VSub(b.max, b.min)
    IN  IF FGt(d.x, d.y) THEN "X"
        ELSE IF FGt(d.y, d.z) THEN "Y"
        ELSE "Z"

\* b.max_extent()
max_extent(b) ==
    LET d == VSub(b.max, b.min)
    IN  IF FGt(d.x, d.y) /\ FGt(d.x, d.z) THEN "X"
        ELSE IF FGt(d.y, d.z) THEN "Y"
        ELSE "Z"

\* b.surface_area()
surface_area(b) ==
    LET d == VSub(b.max, b.min)
    IN  FMul(2, FAdd(FAdd(FMul(d.x, d.y), FMul(d.x, d.z)), FMul(d.y, d.z)))

\* mutant: an index other than 0 is taken for 1
index_clamped(i) == IF i = 0 THEN "min" ELSE "max"

\* Index<usize> for BBox: the corner index i selects, or the panic
index(i) == IF i = 0 THEN "min" ELSE IF i = 1 THEN "max" ELSE "panic"

\* IndexMut<usize> for BBox: the corner index i selects, or the panic
index_mut(i) == IF i = 0 THEN "min" ELSE IF i = 1 THEN "max" ELSE "panic"

\* a ray (linalg::RayT): origin o, direction d and the interval [t_min, t_max]
\* of valid parameters; this one is the ray of a state that tests no ray
NoRay == [o |-> Vector_broadcast(0), d |-> Vector_broadcast(0), t_min |-> 0,
          t_max |-> 0]

\* the inverse direction the caller precomputes: 1/d componentwise, for
\* direction components of -1, 0 and 1 (1/0 is +infinity)
Recip(d) == IF d = 0 THEN PosInf ELSE d
InvDir(d) == Vector_new(Recip(d.x), Recip(d.y), Recip(d.z))

\* neg_dir: 1 for a negative direction component, 0 otherwise; neg_dir[1],
\* neg_dir[2], neg_dir[3] are the program's neg_dir[0], [1], [2]
Neg(d) == IF d < 0 THEN 1 ELSE 0
NegDir(d) == <<Neg(d.x), Neg(d.y), Neg(d.z)>>

\* b.fast_intersect(&r, &inv_dir, &neg_dir)
fast_intersect(b, r, inv_dir, neg_dir) ==
    LET o == r.o
        tmin0 == FMul(FSub(b[index(neg_dir[1])].x, o.x), inv_dir.x)
        tmax0 == FMul(FSub(b[index(1 - neg_dir[1])].x, o.x), inv_dir.x)
        tymin == FMul(FSub(b[index(neg_dir[2])].y, o.y), inv_dir.y)
        tymax == FMul(FSub(b[index(1 - neg_dir[2])].y, o.y), inv_dir.y)
    IN  IF FGt(tmin0, tymax) \/ FGt(tymin, tmax0) THEN FALSE
        ELSE
        LET tmin1 == IF FGt(tymin, tmin0) THEN tymin ELSE tmin0
            tmax1 == IF FLt(tymax, tmax0) THEN tymax ELSE tmax0
            tzmin == FMul(FSub(b[index(neg_dir[3])].z, o.z), inv_dir.z)
            tzmax == FMul(FSub(b[index(1 - neg_dir[3])].z, o.z), inv_dir.z)
        IN  IF FGt(tmin1, tzmax) \/ FGt(tzmin, tmax1) THEN FALSE
            ELSE
            LET tmin2 == IF FGt(tzmin, tmin1) THEN tzmin ELSE tmin1
                tmax2 == IF FLt(tzmax, tmax1) THEN tzmax ELSE tmax1
            IN  FLt(tmin2, r.t_max) /\ FGt(tmax2, r.t_min)

(***************************************************************************)
(* The brute-force slab test fast_intersect is compared with: per axis,    *)
(* the parameter interval in which the ray is between the two planes,      *)
(* found by dividing by the direction component, and for a zero component  *)
(* by testing the origin against the planes.                               *)
(***************************************************************************)
\* the interval <<near, far>> of one axis; <<PosInf, NegInf>> is empty
SlabInterval(lo_, hi_, o, d) ==
    IF d = 0
    THEN (IF lo_ <= o /\ o <= hi_ THEN <<NegInf, PosInf>> ELSE <<PosInf, NegInf>>)
    ELSE LET t1 == IF d > 0 THEN (lo_ - o) \div d ELSE (o - lo_) \div (-d)
             t2 == IF d > 0 THEN (hi_ - o) \div d ELSE (o - hi_) \div (-d)
         IN  <<FMin(t1, t2), FMax(t1, t2)>>

SlabTest(b, r) ==
    LET ix == SlabInterval(b.min.x, b.max.x, r.o.x, r.d.x)
        iy == SlabInterval(b.min.y, b.max.y, r.o.y, r.d.y)
        iz == SlabInterval(b.min.z, b.max.z, r.o.z, r.d.z)
        tmin == FMax(ix[1], FMax(iy[1], iz[1]))
        tmax == FMin(ix[2], FMin(iy[2], iz[2]))
    IN  /\ tmin <= tmax
        /\ tmin < r.t_max
        /\ tmax > r.t_min

(***************************************************************************)
(* partition                                                               *)
(***************************************************************************)

\* mutant: the swap is left out
SwapElemsSkipped(s, i, j) == s

\* mutant: the swap copies one element over the other
SwapElemsCopies(s, i, j) == [s EXCEPT ![i] = s[j]]

\* mem::swap(f, b): exchange the elements at positions i and j
SwapElems(s, i, j) == [s EXCEPT ![i] = s[j], ![j] = s[i]]

\* mutant: the front scan stops at the first element whatever pred says
FrontFoundAlways(v) == TRUE

\* the front scan keeps `f` and leaves its loop when !pred(f)
FrontFound(v) == ~pred[v]

\* the back scan keeps `b` and leaves its loop when pred(b)
BackFound(v) == pred[v]

\* mutant: the back scan looks at one element only
AfterBackOnce(v) == "match"

\* where the back scan goes after looking at an element with value v
AfterBack(v) == IF BackFound(v) THEN "match" ELSE "back"

\* the arm of the match that swaps: both scans found an element
BothFound(f, b) == f # 0 /\ b # 0

InitPartition ==
    /\ input \in UNION {[1..n -> Vals] : n \in 0..MaxLen}
    /\ pred \in [Vals -> BOOLEAN]
    /\ data = input
    /\ lo = 0
    /\ hi = Len(input)
    /\ split_idx = 0
    /\ front = 0
    /\ back = 0
    /\ pc = "front"
    /\ swaps = 0
    /\ evals = [i \in 1..Len(input) |-> 0]
    /\ frontTaken = {}
    /\ backTaken = {}

\* one pass of `while let Some(f) = it.next()`
FrontNext ==
    /\ pc = "front"
    /\ IF lo < hi
       THEN /\ lo' = lo + 1
            /\ frontTaken' = frontTaken \cup {lo + 1}
            /\ evals' = [evals EXCEPT ![lo + 1] = @ + 1]
            /\ IF FrontFound(data[lo + 1])
               THEN /\ front' = lo + 1
                    /\ pc' = "back"
                    /\ UNCHANGED split_idx
               ELSE /\ split_idx' = split_idx + 1
                    /\ UNCHANGED <<front, pc>>
       ELSE /\ pc' = "back"
            /\ UNCHANGED <<lo, frontTaken, evals, front, split_idx>>
    /\ UNCHANGED <<input, pred, data, hi, back, swaps, backTaken>>

\* one pass of `while let Some(b) = it.next_back()`
BackNext ==
    /\ pc = "back"
    /\ IF lo < hi
       THEN /\ hi' = hi - 1
            /\ backTaken' = backTaken \cup {hi}
            /\ evals' = [evals EXCEPT ![hi] = @ + 1]
            /\ back' = IF BackFound(data[hi]) THEN hi ELSE back
            /\ pc' = AfterBack(data[hi])
       ELSE /\ pc' = "match"
            /\ UNCHANGED <<hi, backTaken, evals, back>>
    /\ UNCHANGED <<input, pred, data, lo, split_idx, front, swaps, frontTaken>>

\* `match (front, back)`, and the start of the next round of the loop
Match ==
    /\ pc = "match"
    /\ IF BothFound(front, back)
       THEN /\ data' = SwapElems(data, front, back)
            /\ split_idx' = split_idx + 1
            /\ swaps' = swaps + 1
            /\ front' = 0
            /\ back' = 0
            /\ pc' = "front"
       ELSE /\ pc' = "done"
            /\ UNCHANGED <<data, split_idx, swaps, front, back>>
    /\ UNCHANGED <<input, pred, lo, hi, evals, frontTaken, backTaken>>

\* no box operation is under way
IdleBox ==
    /\ box = BBox_new
    /\ axisOut = <<>>
    /\ areaOut = <<>>
    /\ ray = NoRay
    /\ hitOut = <<>>
    /\ idxOp = "none"
    /\ idxI = 0
    /\ idxVal = Vector_broadcast(0)
    /\ idxOut = <<>>
    /\ panicked = FALSE

\* partition is not running
IdlePartition ==
    /\ input = <<>>
    /\ pred = [v \in Vals |-> FALSE]
    /\ data = <<>>
    /\ lo = 0
    /\ hi = 0
    /\ split_idx = 0
    /\ front = 0
    /\ back = 0
    /\ pc = "idle"
    /\ swaps = 0
    /\ evals = <<>>
    /\ frontTaken = {}
    /\ backTaken = {}

Init == InitPartition /\ IdleBox

Next ==
    \/ FrontNext /\ UNCHANGED boxVars
    \/ BackNext /\ UNCHANGED boxVars
    \/ Match /\ UNCHANGED boxVars

Spec == Init /\ [][Next]_vars

\* the loop of partition runs on: no step that can be taken is put off forever
FairSpec == Init /\ [][Next]_vars /\ WF_vars(Next)

(***************************************************************************)
(* Boxes grown from the empty box: point_union, box_union, max_extent,     *)
(* surface_area                                                            *)
(***************************************************************************)
\* the finite coordinates points are drawn from: the extremes of f32 and
\* values near zero
Coords == {-MaxFloat, 0, 1, MaxFloat}

Points == [x : Coords, y : Coords, z : Coords]

SamplePts == {Vector_new(0, 0, 0), Vector_new(1, 0, 1),
              Vector_new(0, 1, MaxFloat), Vector_new(-MaxFloat, 1, 0)}

\* operands of box_union: boxes that are themselves grown from the empty
\* box by point unions
GrownBoxes ==
    {point_union(point_union(BBox_new, p), q) : p, q \in SamplePts}

PointUnion(p) ==
    /\ box' = point_union(box, p)
    /\ axisOut' = <<>>
    /\ areaOut' = <<>>
    /\ UNCHANGED <<ray, hitOut, idxOp, idxI, idxVal, idxOut, panicked>>

BoxUnion(b) ==
    /\ box' = box_union(box, b)
    /\ axisOut' = <<>>
    /\ areaOut' = <<>>
    /\ UNCHANGED <<ray, hitOut, idxOp, idxI, idxVal, idxOut, panicked>>

MaxExtent ==
    /\ axisOut' = <<max_extent(box)>>
    /\ UNCHANGED <<box, areaOut, ray, hitOut, idxOp, idxI, idxVal, idxOut,
                   panicked>>

SurfaceArea ==
    /\ areaOut' = <<surface_area(box)>>
    /\ UNCHANGED <<box, axisOut, ray, hitOut, idxOp, idxI, idxVal, idxOut,
                   panicked>>

InitBox == IdlePartition /\ IdleBox

NextBox ==
    \/ \E p \in Points : PointUnion(p) /\ UNCHANGED partVars
    \/ \E b \in GrownBoxes : BoxUnion(b) /\ UNCHANGED partVars
    \/ MaxExtent /\ UNCHANGED partVars
    \/ SurfaceArea /\ UNCHANGED partVars

SpecBox == InitBox /\ [][NextBox]_vars

(***************************************************************************)
(* The union laws: box_union on arbitrary boxes, the empty box, boxes with *)
(* min above max and boxes with infinite corners included                  *)
(***************************************************************************)
AlgCoords == {NegInf, PosInf} \cup (0..MaxCoord)

AlgPoints == [x : AlgCoords, y : AlgCoords, z : AlgCoords]

AlgSamplePts == {Vector_new(0, 0, 0), Vector_new(MaxCoord, 0, MaxCoord),
                 Vector_new(0, MaxCoord, PosInf), Vector_new(NegInf, MaxCoord, 0)}

\* the boxes box_union is applied to
AlgOperands == {BBox_new} \cup {span(p, q) : p, q \in AlgSamplePts}

InitAlgebra ==
    /\ IdlePartition
    /\ box \in {span(p, q) : p, q \in AlgPoints}
    /\ axisOut = <<>>
    /\ areaOut = <<>>
    /\ ray = NoRay
    /\ hitOut = <<>>
    /\ idxOp = "none"
    /\ idxI = 0
    /\ idxVal = Vector_broadcast(0)
    /\ idxOut = <<>>
    /\ panicked = FALSE

NextAlgebra == \E b \in AlgOperands : BoxUnion(b) /\ UNCHANGED partVars

SpecAlgebra == InitAlgebra /\ [][NextAlgebra]_vars

(***************************************************************************)
(* Indexing the corners of a box                                           *)
(***************************************************************************)
\* let v = bbox[i];
IndexRead(i) ==
    /\ ~panicked
    /\ idxOp' = "read"
    /\ idxI' = i
    /\ idxVal' = Vector_broadcast(0)
    /\ IF index(i) = "panic"
       THEN /\ panicked' = TRUE
            /\ idxOut' = <<>>
       ELSE /\ idxOut' = <<box[index(i)]>>
            /\ UNCHANGED panicked
    /\ UNCHANGED <<box, axisOut, areaOut, ray, hitOut>>

\* bbox[i] = v;
IndexWrite(i, v) ==
    /\ ~panicked
    /\ idxOp' = "write"
    /\ idxI' = i
    /\ idxVal' = v
    /\ idxOut' = <<>>
    /\ IF index_mut(i) = "panic"
       THEN /\ panicked' = TRUE
            /\ UNCHANGED box
       ELSE /\ box' = [box EXCEPT ![index_mut(i)] = v]
            /\ UNCHANGED panicked
    /\ UNCHANGED <<axisOut, areaOut, ray, hitOut>>

InitIndex == IdlePartition /\ IdleBox

NextIndex ==
    \/ \E i \in 0..MaxIndex : IndexRead(i) /\ UNCHANGED partVars
    \/ \E i \in 0..MaxIndex, v \in SamplePts :
            IndexWrite(i, v) /\ UNCHANGED partVars

SpecIndex == InitIndex /\ [][NextIndex]_vars

(***************************************************************************)
(* fast_intersect                                                          *)
(***************************************************************************)
\* the boxes rays are tested against: from the origin to a corner
IsectCorners == [x : 1..MaxCorner, y : 1..MaxCorner, z : 1..MaxCorner]

\* ray origins: in the box, on its planes and outside it on either side
IsectOrigins ==
    [x : (-1)..(MaxCorner + 1), y : (-1)..(MaxCorner + 1),
     z : (-1)..(MaxCorner + 1)]

\* ray directions: -1, 0 or 1 on each axis, not all zero
IsectDirs ==
    {d \in [x : {-1, 0, 1}, y : {-1, 0, 1}, z : {-1, 0, 1}] :
        d # Vector_broadcast(0)}

Rays == [o : IsectOrigins, d : IsectDirs, t_min : {0, 1}, t_max : {2, PosInf}]

FastIntersect ==
    /\ hitOut = <<>>
    /\ hitOut' = <<fast_intersect(box, ray, InvDir(ray.d), NegDir(ray.d))>>
    /\ UNCHANGED <<box, axisOut, areaOut, ray, idxOp, idxI, idxVal, idxOut,
                   panicked>>

InitIntersect ==
    /\ IdlePartition
    /\ box \in {span(Vector_broadcast(0), q) : q \in IsectCorners}
    /\ ray \in Rays
    /\ axisOut = <<>>
    /\ areaOut = <<>>
    /\ hitOut = <<>>
    /\ idxOp = "none"
    /\ idxI = 0
    /\ idxVal = Vector_broadcast(0)
    /\ idxOut = <<>>
    /\ panicked = FALSE

NextIntersect == FastIntersect /\ UNCHANGED partVars

SpecIntersect == InitIntersect /\ [][NextIntersect]_vars

(***************************************************************************)
(* Properties of partition                                                 *)
(***************************************************************************)

\* number of positions of s that hold v
Count(s, v) == Cardinality({i \in 1..Len(s) : s[i] = v})

\* number of positions of s whose element satisfies pred
CountTrue(s) == Cardinality({i \in 1..Len(s) : pred[s[i]]})

\* C1: when partition returns split index k, exactly the elements below
\* index k (positions 1..k here) satisfy the predicate, and k is the number
\* of predicate-true elements of the input.
C1_SplitSeparates ==
    pc = "done" =>
        /\ \A i \in 1..Len(data) : (i <= split_idx) <=> pred[data[i]]
        /\ split_idx = CountTrue(input)

\* a run that swapped and returned a split strictly inside the sequence
C1_Witness ==
    /\ pc = "done"
    /\ swaps >= 1
    /\ 0 < split_idx
    /\ split_idx < Len(data)

\* C2: in every state of partition (so after every swap, and at return) the
\* sequence has the length of the input and holds every value as often as
\* the input does.
C2_Permutation ==
    /\ Len(data) = Len(input)
    /\ \A v \in Vals : Count(data, v) = Count(input, v)

\* a swap has happened and changed the sequence
C2_Witness ==
    /\ swaps >= 1
    /\ data # input
    /\ pc = "done"

\* a step of Match that swaps
SwapStep == pc = "match" /\ swaps' = swaps + 1

\* C9: partition swaps at most floor(n/2) times, and every swap exchanges a
\* predicate-false element that the front scan found with a predicate-true
\* element that the back scan found at a strictly later position.
C9_SwapsBounded ==
    /\ [](2 * swaps <= Len(input))
    /\ [][SwapStep =>
            /\ front \in frontTaken
            /\ back \in backTaken
            /\ front < back
            /\ ~pred[data[front]]
            /\ pred[data[back]]
            /\ data' = [data EXCEPT ![front] = data[back],
                                     ![back] = data[front]]]_vars

\* two swaps have happened in one run
C9_Witness == swaps >= 2

\* the cursor is exhausted and every position was yielded and tested once
Exhausted ==
    /\ lo = hi
    /\ frontTaken \cap backTaken = {}
    /\ frontTaken \cup backTaken = 1..Len(input)
    /\ \A i \in 1..Len(input) : evals[i] = 1

\* C10: partition terminates; when it returns the cursor is exhausted, each
\* position was yielded exactly once, by one scan only, and tested exactly
\* once; the two scans never cross.
C10_TerminatesExhausted ==
    /\ <>(pc = "done")
    /\ [](pc = "done" => Exhausted)
    /\ [](lo <= hi)

\* a run over a full-length sequence that used both scans and returned
C10_Witness ==
    /\ pc = "done"
    /\ Len(input) >= 3
    /\ frontTaken # {}
    /\ backTaken # {}
    /\ swaps >= 1

(***************************************************************************)
(* Properties of boxes grown from the empty box                            *)
(***************************************************************************)
Axes == {"X", "Y", "Z"}

\* the component of vector v on axis a
Comp(v, a) == IF a = "X" THEN v.x ELSE IF a = "Y" THEN v.y ELSE v.z

\* the place of an axis in the order X, Y, Z
Place(a) == IF a = "X" THEN 1 ELSE IF a = "Y" THEN 2 ELSE 3

\* min <= max on every axis
Valid(b) == \A a \in Axes : FLe(Comp(b.min, a), Comp(b.max, a))

\* the extents max - min, as the program computes them
Extent(b) == VSub(b.max, b.min)

\* the axes whose extent is the largest
Longest(b) ==
    {a \in Axes : \A c \in Axes : FGe(Comp(Extent(b), a), Comp(Extent(b), c))}

\* C5 as stated: when two or more axes tie for the largest extent of a box
\* with min <= max, max_extent returns the earliest of them in X, Y, Z order.
C5_TieEarliest ==
    (axisOut # <<>> /\ Valid(box) /\ Cardinality(Longest(box)) >= 2) =>
        /\ axisOut[1] \in Longest(box)
        /\ \A a \in Longest(box) : Place(axisOut[1]) <= Place(a)

\* C5 amended: when two or more axes tie for the largest extent of a box
\* with min <= max, max_extent returns the latest of them in X, Y, Z order
\* (Z over Y and X, Y over X).
C5_TieLatest ==
    (axisOut # <<>> /\ Valid(box) /\ Cardinality(Longest(box)) >= 2) =>
        /\ axisOut[1] \in Longest(box)
        /\ \A a \in Longest(box) : Place(axisOut[1]) >= Place(a)

\* max_extent has answered for a box whose X and Y extents tie for the
\* largest, Z being shorter
C5_Witness ==
    /\ axisOut # <<>>
    /\ Valid(box)
    /\ Longest(box) = {"X", "Y"}

\* C6 as stated: the surface area of every box grown from the empty box by
\* point unions and box unions with finite operands is non-negative.
C6_AreaNonNegative == areaOut # <<>> => FGe(areaOut[1], 0)

\* C8: for a box with min <= max on every axis, the axis max_extent returns
\* has an extent at least as large as the extent of every axis.
C8_ReturnsLongest ==
    (axisOut # <<>> /\ Valid(box)) =>
        \A a \in Axes : FGe(Comp(Extent(box), axisOut[1]), Comp(Extent(box), a))

\* max_extent has answered for a box whose X extent ties with Z for the
\* largest and is finite
C8_Witness ==
    /\ axisOut # <<>>
    /\ Valid(box)
    /\ Longest(box) = {"X", "Z"}
    /\ Extent(box).x \in Finite

(***************************************************************************)
(* Properties of box_union, indexing and fast_intersect                    *)
(***************************************************************************)

\* C3: box_union is commutative, associative and idempotent, and the empty
\* box of BBox::new is its identity on either side, for all boxes.
C3_UnionLaws ==
    /\ \A b \in AlgOperands :
            /\ box_union(box, b) = box_union(b, box)
            /\ \A c \in AlgOperands :
                    box_union(box_union(box, b), c)
                        = box_union(box, box_union(b, c))
    /\ box_union(box, box) = box
    /\ box_union(box, BBox_new) = box
    /\ box_union(BBox_new, box) = box

\* a box with min above max on one axis and an infinite corner, whose union
\* with some operand is a third box
C3_Witness ==
    /\ ~Valid(box)
    /\ box # BBox_new
    /\ box.max.z = PosInf
    /\ \E b \in AlgOperands : box_union(box, b) \notin {box, b}

\* what one indexing of the box may do
IndexContract ==
    /\ (idxOp' = "read" /\ idxI' = 0) =>
            (~panicked' /\ idxOut' = <<box.min>> /\ box' = box)
    /\ (idxOp' = "read" /\ idxI' = 1) =>
            (~panicked' /\ idxOut' = <<box.max>> /\ box' = box)
    /\ (idxOp' = "write" /\ idxI' = 0) =>
            (~panicked' /\ box' = [box EXCEPT !.min = idxVal'])
    /\ (idxOp' = "write" /\ idxI' = 1) =>
            (~panicked' /\ box' = [box EXCEPT !.max = idxVal'])
    /\ idxI' > 1 => (panicked' /\ idxOut' = <<>> /\ box' = box)

\* C7: indexing a box with 0 gives min and with 1 gives max, to read or to
\* write; any other index panics, returns no corner and leaves the box as
\* it was.
C7_IndexPanics == [][IndexContract]_vars

\* a box that was written through both indices, then indexed with 2
C7_Witness ==
    /\ panicked
    /\ idxI = 2
    /\ box.min \in SamplePts
    /\ box.max \in SamplePts

\* C4 as stated: fast_intersect returns what the brute-force slab test
\* returns, for every box and ray, rays with a zero direction component and
\* an origin on a slab plane of that axis included.
C4_AgreesWithSlabTest == hitOut # <<>> => hitOut[1] = SlabTest(box, ray)

=============================================================================
